---- MODULE Spec2Model ----
(***************************************************************************)
(* Financial Research AI: the query classifier (app/services/categorizer)  *)
(* and the HTTP request path around it (app/main, app/api/analyze,          *)
(* app/schemas/analyze).                                                    *)
(*                                                                         *)
(* A Python str is a sequence of characters; a character is a one-letter   *)
(* TLA+ string, except U+017F (LATIN SMALL LETTER LONG S), written         *)
(* "U+017F".  A Python value is a record [type, chars].                    *)
(***************************************************************************)
EXTENDS Integers, Sequences, FiniteSets, TLC

\* ------------------------------------------------------------------ bounds
\* Longest query, in vocabulary words, handed to categorize_query.
MaxTokens == 2

\* How far past MAX_LENGTH the longest question goes.
MaxExcess == 1

\* Coroutines of categorize_query that exist at the same time.
MaxCoroutines == 2

\* Requests the server works on at the same time.
MaxInFlight == 2

\* Uses of the get_db dependency.
MaxUses == 2

\* ------------------------------------------------------- Python str values
LowerLetters ==
    << "a","b","c","d","e","f","g","h","i","j","k","l","m",
       "n","o","p","q","r","s","t","u","v","w","x","y","z" >>

UpperLetters ==
    << "A","B","C","D","E","F","G","H","I","J","K","L","M",
       "N","O","P","Q","R","S","T","U","V","W","X","Y","Z" >>

\* U+017F is a lower-case letter whose upper-case is the ASCII letter S.
LongS == "U+017F"

Range(s) == { s[i] : i \in 1..Len(s) }

AsciiUpper == Range(UpperLetters)

AsciiLower == Range(LowerLetters)

IndexIn(letters, c) == CHOOSE i \in 1..Len(letters) : letters[i] = c

\* str.lower() on one character: A-Z go to a-z, every other character of the
\* alphabet (a-z, U+017F, blank, punctuation) is already its own lower case.
LowerOfUpper == [c \in AsciiUpper |-> LowerLetters[IndexIn(UpperLetters, c)]]

LowerChar(c) == IF c \in AsciiUpper THEN LowerOfUpper[c] ELSE c

\* str.upper() on one character: a-z go to A-Z and U+017F goes to S.
UpperOfLower == [c \in AsciiLower |-> UpperLetters[IndexIn(LowerLetters, c)]]

UpperChar(c) ==
    IF c \in AsciiLower THEN UpperOfLower[c]
    ELSE IF c = LongS THEN "S"
    ELSE c

Lower(s) == [i \in 1..Len(s) |-> LowerChar(s[i])]

Upper(s) == [i \in 1..Len(s) |-> UpperChar(s[i])]

\* Python's  k in q  for two strings: k occurs in q as a contiguous substring.
Contains(q, k) ==
    \E i \in 0..(Len(q) - Len(k)) : \A j \in 1..Len(k) : q[i + j] = k[j]

\* any(x in q for x in keywords)
AnyIn(keywords, q) == \E j \in 1..Len(keywords) : Contains(q, keywords[j])

PyStr(s) == [type |-> "str", chars |-> s]

PyNone == [type |-> "NoneType", chars |-> << >>]

\* ------------------------------------------------------------- categorizer
VALID_CATEGORIES == {"stock", "news", "portfolio", "general"}

STOCK_KEYWORDS ==
    << <<"p","r","i","c","e">>,
       <<"p","e"," ","r","a","t","i","o">>,
       <<"d","i","v","i","d","e","n","d">>,
       <<"v","o","l","u","m","e">>,
       <<"c","h","a","r","t">>,
       <<"h","i","g","h">>,
       <<"l","o","w">>,
       <<"m","a","r","k","e","t"," ","c","a","p">> >>

NEWS_KEYWORDS ==
    << <<"n","e","w","s">>,
       <<"h","e","a","d","l","i","n","e">>,
       <<"h","a","p","p","e","n","e","d">>,
       <<"e","v","e","n","t">>,
       <<"l","a","t","e","s","t">>,
       <<"u","p","d","a","t","e">>,
       <<"r","e","p","o","r","t">> >>

PORTFOLIO_KEYWORDS ==
    << <<"p","o","r","t","f","o","l","i","o">>,
       <<"h","o","l","d","i","n","g">>,
       <<"b","o","u","g","h","t">>,
       <<"s","o","l","d">>,
       <<"b","u","y">>,
       <<"s","e","l","l">>,
       <<"b","a","l","a","n","c","e">>,
       <<"a","c","c","o","u","n","t">>,
       <<"t","r","a","n","s","a","c","t","i","o","n">>,
       <<"p","o","s","i","t","i","o","n">> >>

Returned(v) == [kind |-> "return", value |-> v]

Raised(e) == [kind |-> "raise", value |-> e]

\* Variant: the try block ends without  return "general".
try_body_falls_through(query) ==
    IF query.type # "str" THEN Raised("AttributeError")
    ELSE LET q == Lower(query.chars) IN
         IF AnyIn(STOCK_KEYWORDS, q) THEN Returned("stock")
         ELSE IF AnyIn(NEWS_KEYWORDS, q) THEN Returned("news")
         ELSE IF AnyIn(PORTFOLIO_KEYWORDS, q) THEN Returned("portfolio")
         ELSE Returned("None")

\* The try block of categorize_query.  query.lower() raises AttributeError
\* when query is not a str; otherwise the three keyword tests run in order
\* and the block ends in  return "general".
try_body(query) ==
    IF query.type # "str" THEN Raised("AttributeError")
    ELSE LET q == Lower(query.chars) IN
         IF AnyIn(STOCK_KEYWORDS, q) THEN Returned("stock")
         ELSE IF AnyIn(NEWS_KEYWORDS, q) THEN Returned("news")
         ELSE IF AnyIn(PORTFOLIO_KEYWORDS, q) THEN Returned("portfolio")
         ELSE Returned("general")

\* Variant: the except clause logs and re-raises.
categorize_query_reraise(query) ==
    LET r == try_body(query) IN
    IF r.kind = "raise"
    THEN [kind |-> "raise", value |-> r.value,
          logged |-> << [level |-> "ERROR", msg |-> r.value] >>]
    ELSE [kind |-> "return", value |-> r.value, logged |-> << >>]

\* categorize_query: the try block, and the  except Exception  clause that
\* logs the failure and returns "general".  The outcome carries what the
\* caller sees (kind, value) and the lines written to the logger.
categorize_query(query) ==
    LET r == try_body(query) IN
    IF r.kind = "raise"
    THEN [kind |-> "return", value |-> "general",
          logged |-> << [level |-> "ERROR", msg |-> r.value] >>]
    ELSE [kind |-> "return", value |-> r.value, logged |-> << >>]

\* The module-level names of app.services.categorizer besides the function:
\* VALID_CATEGORIES and what the logger has been given.
CategorizerGlobals == [VALID_CATEGORIES |-> VALID_CATEGORIES, logged |-> {}]

\* Variant: the result is checked against VALID_CATEGORIES and the category
\* returned is taken out of that module-level set.
categorize_query_call_consumes(query, globals) ==
    LET out == categorize_query(query)
        cat == IF out.value \in globals.VALID_CATEGORIES THEN out.value ELSE "general"
    IN [outcome |-> [out EXCEPT !.value = cat],
        globals |-> [globals EXCEPT !.VALID_CATEGORIES = @ \ {cat},
                                    !.logged = @ \cup Range(out.logged)]]

\* One run of the body of categorize_query in the module's namespace: the
\* body reads its argument and literals only, and writes nothing but log
\* lines (logger.error in the except clause).
categorize_query_call(query, globals) ==
    LET out == categorize_query(query)
    IN [outcome |-> out,
        globals |-> [globals EXCEPT !.logged = @ \cup Range(out.logged)]]

NoValue == [type |-> "absent", chars |-> << >>]

NoOutcome == [kind |-> "none", value |-> "none", logged |-> << >>]

\* ------------------------------------------------------------ JSON values
JNull == [json |-> "null"]

JStr(text) == [json |-> "string", text |-> text]

\* A float, kept in tenths (1.0 is JNum(10)).
JNum(tenths) == [json |-> "number", tenths |-> tenths]

JObj(fields) == [json |-> "object", fields |-> fields]

\* ------------------------------------------------------------ configuration
DEFAULT_APP_NAME == "Financial Research AI"

\* app_name is read from the environment (.env) and defaults to the above.
AppNames == { DEFAULT_APP_NAME, "Custom Research API" }

\* ------------------------------------------------------------------ schemas
MIN_LENGTH == 3

MAX_LENGTH == 1000

\* A JSON request body: an object that has a "question" member or not.
Body(has, question) == [hasQuestion |-> has, question |-> question]

NoBody == Body(FALSE, NoValue)

ValidationErrorEntry(type) == [type |-> type, loc |-> << "body", "question" >>]

\* Variant: the length limits are exclusive.
AnalyzeRequest_off_by_one(body) ==
    IF ~body.hasQuestion
    THEN [errors |-> << ValidationErrorEntry("missing") >>, question |-> NoValue]
    ELSE IF body.question.type # "str"
    THEN [errors |-> << ValidationErrorEntry("string_type") >>, question |-> NoValue]
    ELSE IF Len(body.question.chars) <= MIN_LENGTH
    THEN [errors |-> << ValidationErrorEntry("string_too_short") >>, question |-> NoValue]
    ELSE IF Len(body.question.chars) >= MAX_LENGTH
    THEN [errors |-> << ValidationErrorEntry("string_too_long") >>, question |-> NoValue]
    ELSE [errors |-> << >>, question |-> body.question]

\* Variant: max_length is not declared.
AnalyzeRequest_no_max_length(body) ==
    IF ~body.hasQuestion
    THEN [errors |-> << ValidationErrorEntry("missing") >>, question |-> NoValue]
    ELSE IF body.question.type # "str"
    THEN [errors |-> << ValidationErrorEntry("string_type") >>, question |-> NoValue]
    ELSE IF Len(body.question.chars) < MIN_LENGTH
    THEN [errors |-> << ValidationErrorEntry("string_too_short") >>, question |-> NoValue]
    ELSE [errors |-> << >>, question |-> body.question]

\* AnalyzeRequest: question is required, a str, of 3 to 1000 characters.
\* The result is the list of violations and, when it is empty, the model.
AnalyzeRequest(body) ==
    IF ~body.hasQuestion
    THEN [errors |-> << ValidationErrorEntry("missing") >>, question |-> NoValue]
    ELSE IF body.question.type # "str"
    THEN [errors |-> << ValidationErrorEntry("string_type") >>, question |-> NoValue]
    ELSE IF Len(body.question.chars) < MIN_LENGTH
    THEN [errors |-> << ValidationErrorEntry("string_too_short") >>, question |-> NoValue]
    ELSE IF Len(body.question.chars) > MAX_LENGTH
    THEN [errors |-> << ValidationErrorEntry("string_too_long") >>, question |-> NoValue]
    ELSE [errors |-> << >>, question |-> body.question]

\* AnalyzeResponse(...): category is one of the four literals, summary a str,
\* data a dict or None, confidence None or a float with 0.0 <= c <= 1.0.
\* Construction raises pydantic's ValidationError otherwise.
AnalyzeResponse(category, summary, data, confidence) ==
    IF /\ category.json = "string"
       /\ category.text \in {"stock", "news", "portfolio", "general"}
       /\ summary.json = "string"
       /\ data.json \in {"object", "null"}
       /\ \/ confidence.json = "null"
          \/ /\ confidence.json = "number"
             /\ confidence.tenths >= 0
             /\ confidence.tenths <= 10
    THEN Returned([category |-> category, summary |-> summary,
                   data |-> data, confidence |-> confidence])
    ELSE Raised("ValidationError")

HealthResponse(status, app) == [status |-> JStr(status), app |-> JStr(app)]

\* ---------------------------------------------------------------- endpoints
STUB_SUMMARY == "[STUB] Analysis pipeline not yet connected."

\* Variant: the stub reports confidence=1.0.
analyze_invented_confidence(payload) ==
    [result |-> AnalyzeResponse(JStr("general"), JStr(STUB_SUMMARY),
                                JObj([question |-> payload.chars]), JNum(10)),
     classified |-> << >>]

\* analyze(payload): the stub answers every question with "general" and
\* echoes the question; it makes no call to categorize_query.  The outcome
\* carries the queries handed to the classifier on the way.
analyze(payload) ==
    [result |-> AnalyzeResponse(JStr("general"), JStr(STUB_SUMMARY),
                                JObj([question |-> payload.chars]), JNull),
     classified |-> << >>]

\* Variant: the response is built from the schema's defaults.
health_check_defaults(cfg) == HealthResponse("ok", DEFAULT_APP_NAME)

\* health_check(): status "ok" and the configured settings.app_name.
health_check(cfg) == HealthResponse("ok", cfg.app_name)

\* Variant: analyze() stores into the settings singleton.
endpoint_call_writes_settings(route, question, cfg) ==
    IF route = "analyze"
    THEN [result |-> analyze(question).result,
          settings |-> [cfg EXCEPT !.app_name = "Financial Research AI (analyzing)"]]
    ELSE [result |-> Returned(health_check(cfg)), settings |-> cfg]

\* The endpoint function of a route run against the process-wide settings:
\* analyze() reads its payload only, health_check() reads settings.app_name,
\* and neither assigns to anything outside its own frame.
endpoint_call(route, question, cfg) ==
    IF route = "analyze"
    THEN [result |-> analyze(question).result, settings |-> cfg]
    ELSE [result |-> Returned(health_check(cfg)), settings |-> cfg]

\* ------------------------------------------------------------ dependencies
\* One use of get_db: where its generator and its consumer are, and what has
\* been done to the session, in order and by whom.
SessionOp(op, by) == [op |-> op, by |-> by]

UnusedDb == [pc |-> "unused", ops |-> << >>, propagated |-> FALSE]

\* get_db() up to its yield:  db = SessionLocal()  and  yield db.
get_db_start(use) ==
    [use EXCEPT !.pc = "yielded", !.ops = @ \o << SessionOp("open", "get_db") >>]

\* Variant:  yield db  followed by  db.close()  without try / finally.
get_db_resume_no_finally(use, how) ==
    IF how = "throw"
    THEN [use EXCEPT !.pc = "finished", !.propagated = TRUE]
    ELSE [use EXCEPT !.pc = "finished",
                     !.ops = @ \o << SessionOp("close", "get_db") >>]

\* get_db() from its yield on: the framework resumes the generator with
\* next() after a normal end and with throw(exc) after an exception; the
\* finally block runs  db.close()  either way, and the exception goes on.
get_db_resume(use, how) ==
    [use EXCEPT !.pc = "finished",
                !.ops = @ \o << SessionOp("close", "get_db") >>,
                !.propagated = (how = "throw")]

\* -------------------------------------------------------- exception handlers
NoExc == [class |-> "none", text |-> "", errors |-> << >>]

RequestValidationError(errors) ==
    [class |-> "RequestValidationError", text |-> "", errors |-> errors]

Exception(class, text) == [class |-> class, text |-> text, errors |-> << >>]

LogLine(level, text, errors) == [level |-> level, text |-> text, errors |-> errors]

NoResponse == [status |-> 0, body |-> [none |-> TRUE]]

GENERIC_DETAIL == "An unexpected error occurred."

\* Variant: validation failures answered as internal errors.
validation_exception_handler_as_500(exc) ==
    [response |-> [status |-> 500,
                   body |-> [error |-> "internal_server_error",
                             detail |-> GENERIC_DETAIL]],
     logged |-> << LogLine("WARNING", "Validation error", exc.errors) >>]

\* Variant: status_code left at 200.
validation_exception_handler_as_200(exc) ==
    [response |-> [status |-> 200,
                   body |-> [error |-> "validation_error", detail |-> exc.errors]],
     logged |-> << LogLine("WARNING", "Validation error", exc.errors) >>]

\* validation_exception_handler: logs exc.errors() and answers 422 with
\* {"error": "validation_error", "detail": exc.errors()}.
validation_exception_handler(exc) ==
    [response |-> [status |-> 422,
                   body |-> [error |-> "validation_error", detail |-> exc.errors]],
     logged |-> << LogLine("WARNING", "Validation error", exc.errors) >>]

\* Variant: detail carries str(exc).
global_exception_handler_leaks(exc) ==
    [response |-> [status |-> 500,
                   body |-> [error |-> "internal_server_error", detail |-> exc.text]],
     logged |-> << LogLine("ERROR", exc.text, << >>) >>]

\* global_exception_handler: logs str(exc) and answers 500 with a constant body.
global_exception_handler(exc) ==
    [response |-> [status |-> 500,
                   body |-> [error |-> "internal_server_error",
                             detail |-> GENERIC_DETAIL]],
     logged |-> << LogLine("ERROR", exc.text, << >>) >>]

\* ---------------------------------------------------- inputs of the service
PadTo(core, n) == core \o [i \in 1..(n - Len(core)) |-> "x"]

ShortQuestions ==
    { << >>, <<"a">>, <<"h","i">>, <<" "," ">>, <<" "," "," ">>,
      <<"b","u","y">>, <<"l","o","w","?">>, <<"H","e","l","l","o">>,
      <<"L","a","t","e","s","t"," ","n","e","w","s">>,
      <<"p","r","i","c","e"," ","n","e","w","s">>,
      <<"W","h","a","t"," ","i","s"," ","t","h","e"," ","p","r","i","c","e","?">>,
      <<"S","h","o","w"," ","m","y"," ","p","o","r","t","f","o","l","i","o">> }

LongQuestions ==
    { PadTo(core, n) :
        core \in { <<"p","r","i","c","e"," ">>, <<"H","e","l","l","o"," ">> },
        n \in (MAX_LENGTH - 1)..(MAX_LENGTH + MaxExcess) }

RequestBodies ==
    { Body(TRUE, PyStr(t)) : t \in ShortQuestions \cup LongQuestions }
        \cup { Body(TRUE, PyNone), NoBody }

Requests ==
    { [route |-> "analyze", body |-> b] : b \in RequestBodies }
        \cup { [route |-> "health", body |-> NoBody] }

NoRequest == [route |-> "none", body |-> NoBody]

\* ------------------------------------------------- inputs of the classifier
ExtraWords ==
    { <<"P","R","I","C","E">>, <<"N","e","w","s">>, <<"B","u","y">>,
      <<"h","e","l","l","o">>, <<"s","t","o","c","k">>,
      <<"n","e","w">>, <<"s">>, <<" ">>, <<"?">>,
      <<"n","e","w",LongS>> }

Vocabulary == Range(STOCK_KEYWORDS) \cup Range(NEWS_KEYWORDS)
                \cup Range(PORTFOLIO_KEYWORDS) \cup ExtraWords

RECURSIVE Texts(_)
\* Every concatenation of at most n vocabulary words (the empty string too).
Texts(n) ==
    IF n = 0 THEN { << >> }
    ELSE LET shorter == Texts(n - 1) IN
         shorter \cup { t \o w : t \in shorter, w \in Vocabulary }

\* Strings of every length, the over-long ones included, and a non-str value.
ClassifierInputs ==
    { PyStr(t) : t \in Texts(MaxTokens) \cup LongQuestions } \cup { PyNone }

CaseChanges == {"upper", "lower"}

ChangeCase(how, s) == IF how = "upper" THEN Upper(s) ELSE Lower(s)

\* Requests of the clients that are served side by side.
InterleavedRequests ==
    { [route |-> "analyze", body |-> Body(TRUE, PyStr(<<"b","u","y">>))],
      [route |-> "analyze", body |-> Body(TRUE, PyStr(<<"h","i">>))],
      [route |-> "analyze", body |-> NoBody],
      [route |-> "health", body |-> NoBody] }

InFlight == 1..MaxInFlight

NoInFlight == [pc |-> "none", request |-> NoRequest, question |-> NoValue,
               exc |-> NoExc, response |-> NoResponse]

\* Queries of the callers that run side by side.
ConcurrentQueries ==
    { PyStr(<<"p","r","i","c","e">>), PyStr(<<"L","a","t","e","s","t"," ","n","e","w","s">>),
      PyStr(<<"b","u","y">>), PyStr(<<"H","e","l","l","o">>), PyNone }

Coroutines == 1..MaxCoroutines

NoCoroutine == [pc |-> "none", query |-> NoValue, outcome |-> NoOutcome]

\* A fault the runtime raises while an endpoint function runs, with the
\* text str(exc) gives.
FaultTexts == { "database password=hunter2", "MemoryError" }

\* -------------------------------------------------------------------- state
VARIABLES
    callArg,          \* argument of a direct categorize_query call
    callOut,          \* its outcome
    variantArg,       \* a case-changed copy of callArg passed in a further call
    variantOut,       \* the outcome of that further call
    settings,         \* the Settings singleton
    pc,               \* where the request in flight is
    request,          \* the request in flight
    payload,          \* the validated AnalyzeRequest.question
    handlerEntered,   \* the endpoint function has been called for the request
    classifierCalls,  \* queries the request path handed to categorize_query
    exc,              \* the exception raised on the request path
    response,         \* the response built for the request
    log,              \* lines the request wrote to the logger
    sentStatuses,     \* status codes of the responses sent so far
    coroutines,       \* the categorize_query coroutines of concurrent callers
    categorizerGlobals, \* module-level state of app.services.categorizer
    firstOutcome,     \* per query, the category its first finished call returned
    inflight,         \* the requests being served side by side
    serverLog,        \* what those requests wrote to the logger
    firstResponse,    \* per request, the first response built for it
    uses              \* the uses of the get_db dependency

classifierVars == << callArg, callOut, variantArg, variantOut >>

coroutineVars == << coroutines, categorizerGlobals, firstOutcome >>

interleavedVars == << inflight, serverLog, firstResponse >>

dbVars == << uses >>

DbUses == 1..MaxUses

serviceVars == << settings, pc, request, payload, handlerEntered,
                  classifierCalls, exc, response, log, sentStatuses >>

\* What the service's actions leave alone, and what the direct calls do.
outsideService == << classifierVars, coroutineVars, interleavedVars, dbVars >>

outsideClassifier == << serviceVars, coroutineVars, interleavedVars, dbVars >>

vars == << callArg, callOut, variantArg, variantOut, settings, pc, request,
           payload, handlerEntered, classifierCalls, exc, response, log,
           sentStatuses, coroutines, categorizerGlobals, firstOutcome,
           inflight, serverLog, firstResponse, uses >>

InitService ==
    /\ settings \in { [app_name |-> n] : n \in AppNames }
    /\ pc = "idle"
    /\ request = NoRequest
    /\ payload = NoValue
    /\ handlerEntered = FALSE
    /\ classifierCalls = << >>
    /\ exc = NoExc
    /\ response = NoResponse
    /\ log = << >>
    /\ sentStatuses = {}

NoCall ==
    /\ callArg = NoValue
    /\ callOut = NoOutcome
    /\ variantArg = NoValue
    /\ variantOut = NoOutcome

NoCoroutines ==
    /\ coroutines = [c \in Coroutines |-> NoCoroutine]
    /\ categorizerGlobals = CategorizerGlobals
    /\ firstOutcome = [q \in ConcurrentQueries |-> "unseen"]

NoneInFlight ==
    /\ inflight = [r \in InFlight |-> NoInFlight]
    /\ serverLog = {}
    /\ firstResponse = [req \in InterleavedRequests |-> NoResponse]

\* The service after start-up, no request received yet.
Init ==
    /\ InitService /\ NoCall /\ NoCoroutines /\ NoneInFlight
    /\ uses = [u \in DbUses |-> UnusedDb]

\* A caller about to classify one query, the service idle.
InitClassifier ==
    /\ InitService
    /\ NoCoroutines
    /\ NoneInFlight
    /\ uses = [u \in DbUses |-> UnusedDb]
    /\ callArg \in ClassifierInputs
    /\ callOut = NoOutcome
    /\ variantArg = NoValue
    /\ variantOut = NoOutcome

\* ------------------------------------------------------- classifier actions
\* await categorize_query(query)
CallCategorize ==
    /\ callOut = NoOutcome
    /\ callOut' = categorize_query(callArg)
    /\ UNCHANGED << callArg, variantArg, variantOut >>
    /\ UNCHANGED outsideClassifier

\* await categorize_query(query.upper())  /  categorize_query(query.lower())
CallCategorizeCaseChanged(how) ==
    /\ callOut # NoOutcome
    /\ variantOut = NoOutcome
    /\ callArg.type = "str"
    /\ variantArg' = PyStr(ChangeCase(how, callArg.chars))
    /\ variantOut' = categorize_query(variantArg')
    /\ UNCHANGED << callArg, callOut >>
    /\ UNCHANGED outsideClassifier

NextClassifier ==
    \/ CallCategorize
    \/ \E how \in CaseChanges : CallCategorizeCaseChanged(how)

SpecClassifier == InitClassifier /\ [][NextClassifier]_vars

\* -------------------------------------------------------- concurrent callers
\* categorize_query(query): calling the async function binds the argument and
\* gives a coroutine; nothing of the body has run.
CreateCoroutine(c, query) ==
    /\ coroutines[c].pc = "none"
    /\ coroutines' = [coroutines EXCEPT ![c] =
                         [pc |-> "created", query |-> query, outcome |-> NoOutcome]]
    /\ UNCHANGED << categorizerGlobals, firstOutcome >>
    /\ UNCHANGED << classifierVars, serviceVars, interleavedVars, dbVars >>

\* The event loop runs the coroutine; the body has no await, so it runs to
\* its return in one step.
RunCoroutine(c) ==
    /\ coroutines[c].pc = "created"
    /\ LET r == categorize_query_call(coroutines[c].query, categorizerGlobals) IN
       /\ coroutines' = [coroutines EXCEPT ![c].pc = "done", ![c].outcome = r.outcome]
       /\ categorizerGlobals' = r.globals
       /\ firstOutcome' =
              IF firstOutcome[coroutines[c].query] = "unseen"
              THEN [firstOutcome EXCEPT ![coroutines[c].query] = r.outcome.value]
              ELSE firstOutcome
    /\ UNCHANGED << classifierVars, serviceVars, interleavedVars, dbVars >>

\* The awaiting caller takes the result.
AwaitCoroutine(c) ==
    /\ coroutines[c].pc = "done"
    /\ coroutines' = [coroutines EXCEPT ![c] = NoCoroutine]
    /\ UNCHANGED << categorizerGlobals, firstOutcome >>
    /\ UNCHANGED << classifierVars, serviceVars, interleavedVars, dbVars >>

NextConcurrent ==
    \/ \E c \in Coroutines, query \in ConcurrentQueries : CreateCoroutine(c, query)
    \/ \E c \in Coroutines : RunCoroutine(c)
    \/ \E c \in Coroutines : AwaitCoroutine(c)

\* Callers of categorize_query running side by side on one event loop.
SpecConcurrent == Init /\ [][NextConcurrent]_vars

\* ------------------------------------------------------ interleaved requests
\* The steps of the request path, taken by several requests in any order.
\* The requests share the settings singleton and the logger.
Remember(req, resp) ==
    IF firstResponse[req] = NoResponse
    THEN [firstResponse EXCEPT ![req] = resp]
    ELSE firstResponse

ReceiveInFlight(r, req) ==
    /\ inflight[r].pc = "none"
    /\ inflight' = [inflight EXCEPT ![r] = [NoInFlight EXCEPT !.pc = "validating",
                                                              !.request = req]]
    /\ UNCHANGED << serverLog, firstResponse, settings >>
    /\ UNCHANGED << pc, request, payload, handlerEntered, classifierCalls,
                    exc, response, log, sentStatuses >>
    /\ UNCHANGED << classifierVars, coroutineVars, dbVars >>

ValidateInFlight(r) ==
    /\ inflight[r].pc = "validating"
    /\ LET v == AnalyzeRequest(inflight[r].request.body) IN
       inflight' =
           IF inflight[r].request.route # "analyze"
           THEN [inflight EXCEPT ![r].pc = "endpoint"]
           ELSE IF v.errors = << >>
           THEN [inflight EXCEPT ![r].pc = "endpoint", ![r].question = v.question]
           ELSE [inflight EXCEPT ![r].pc = "raised",
                                 ![r].exc = RequestValidationError(v.errors)]
    /\ UNCHANGED << serverLog, firstResponse, settings >>
    /\ UNCHANGED << pc, request, payload, handlerEntered, classifierCalls,
                    exc, response, log, sentStatuses >>
    /\ UNCHANGED << classifierVars, coroutineVars, dbVars >>

RunEndpointInFlight(r) ==
    /\ inflight[r].pc = "endpoint"
    /\ LET out == endpoint_call(inflight[r].request.route, inflight[r].question, settings)
           resp == [status |-> 200, body |-> out.result.value]
       IN
       /\ settings' = out.settings
       /\ IF out.result.kind = "return"
          THEN /\ inflight' = [inflight EXCEPT ![r].pc = "responded",
                                               ![r].response = resp]
               /\ firstResponse' = Remember(inflight[r].request, resp)
          ELSE /\ inflight' = [inflight EXCEPT ![r].pc = "raised",
                                               ![r].exc = Exception(out.result.value,
                                                   "validation error for AnalyzeResponse")]
               /\ firstResponse' = firstResponse
    /\ UNCHANGED serverLog
    /\ UNCHANGED << pc, request, payload, handlerEntered, classifierCalls,
                    exc, response, log, sentStatuses >>
    /\ UNCHANGED << classifierVars, coroutineVars, dbVars >>

HandleExceptionInFlight(r) ==
    /\ inflight[r].pc = "raised"
    /\ LET h == IF inflight[r].exc.class = "RequestValidationError"
                THEN validation_exception_handler(inflight[r].exc)
                ELSE global_exception_handler(inflight[r].exc) IN
       /\ inflight' = [inflight EXCEPT ![r].pc = "responded", ![r].response = h.response]
       /\ serverLog' = serverLog \cup Range(h.logged)
       /\ firstResponse' = Remember(inflight[r].request, h.response)
    /\ UNCHANGED settings
    /\ UNCHANGED << pc, request, payload, handlerEntered, classifierCalls,
                    exc, response, log, sentStatuses >>
    /\ UNCHANGED << classifierVars, coroutineVars, dbVars >>

SendInFlight(r) ==
    /\ inflight[r].pc = "responded"
    /\ inflight' = [inflight EXCEPT ![r] = NoInFlight]
    /\ UNCHANGED << serverLog, firstResponse, settings >>
    /\ UNCHANGED << pc, request, payload, handlerEntered, classifierCalls,
                    exc, response, log, sentStatuses >>
    /\ UNCHANGED << classifierVars, coroutineVars, dbVars >>

NextInterleaved ==
    \/ \E r \in InFlight, req \in InterleavedRequests : ReceiveInFlight(r, req)
    \/ \E r \in InFlight : ValidateInFlight(r)
    \/ \E r \in InFlight : RunEndpointInFlight(r)
    \/ \E r \in InFlight : HandleExceptionInFlight(r)
    \/ \E r \in InFlight : SendInFlight(r)

\* The service with several requests in flight.
SpecInterleaved == Init /\ [][NextInterleaved]_vars

\* ------------------------------------------------------- get_db dependency
\* A route that declares  db: Session = Depends(get_db)  is called: the
\* framework runs get_db up to its yield and passes the session on.
OpenDb(u) ==
    /\ uses[u].pc = "unused"
    /\ uses' = [uses EXCEPT ![u] = get_db_start(uses[u])]
    /\ UNCHANGED << classifierVars, serviceVars, coroutineVars, interleavedVars >>

\* The consumer (route, service layer) commits or rolls back; each at most
\* once per use here.
ConsumerTransaction(u, op) ==
    /\ uses[u].pc = "yielded"
    /\ \A i \in 1..Len(uses[u].ops) : uses[u].ops[i].op # op
    /\ uses' = [uses EXCEPT ![u].ops = @ \o << SessionOp(op, "consumer") >>]
    /\ UNCHANGED << classifierVars, serviceVars, coroutineVars, interleavedVars >>

\* The consumer ends: it returns, or it raises.
ConsumerEnds(u, how) ==
    /\ uses[u].pc = "yielded"
    /\ uses' = [uses EXCEPT ![u].pc = how]
    /\ UNCHANGED << classifierVars, serviceVars, coroutineVars, interleavedVars >>

\* The request lifecycle ends: the framework resumes the generator.
ResumeDb(u) ==
    /\ uses[u].pc \in {"returned", "raised"}
    /\ uses' = [uses EXCEPT ![u] =
                   get_db_resume(uses[u], IF uses[u].pc = "raised" THEN "throw" ELSE "next")]
    /\ UNCHANGED << classifierVars, serviceVars, coroutineVars, interleavedVars >>

NextDb ==
    \/ \E u \in DbUses : OpenDb(u)
    \/ \E u \in DbUses, op \in {"commit", "rollback"} : ConsumerTransaction(u, op)
    \/ \E u \in DbUses, how \in {"returned", "raised"} : ConsumerEnds(u, how)
    \/ \E u \in DbUses : ResumeDb(u)

\* Uses of get_db; the framework always unwinds a dependency whose consumer
\* has ended.
SpecDb == Init /\ [][NextDb]_vars /\ \A u \in DbUses : WF_vars(ResumeDb(u))

\* ---------------------------------------------------------- service actions
\* A request arrives while none is in flight.
Receive(req) ==
    /\ pc = "idle"
    /\ request' = req
    /\ pc' = "validating"
    /\ payload' = NoValue
    /\ handlerEntered' = FALSE
    /\ classifierCalls' = << >>
    /\ exc' = NoExc
    /\ response' = NoResponse
    /\ log' = << >>
    /\ UNCHANGED << settings, sentStatuses >>
    /\ UNCHANGED outsideService

\* The framework builds the endpoint's parameters: for POST /api/v1/analyze
\* the body is validated against AnalyzeRequest and a failure raises
\* RequestValidationError; GET /health has no parameters.
ValidateRequest ==
    /\ pc = "validating"
    /\ IF request.route = "analyze"
       THEN LET v == AnalyzeRequest(request.body) IN
            IF v.errors = << >>
            THEN /\ payload' = v.question
                 /\ pc' = "endpoint"
                 /\ exc' = exc
            ELSE /\ payload' = payload
                 /\ pc' = "raised"
                 /\ exc' = RequestValidationError(v.errors)
       ELSE /\ pc' = "endpoint"
            /\ UNCHANGED << payload, exc >>
    /\ UNCHANGED << settings, request, handlerEntered, classifierCalls,
                    response, log, sentStatuses >>
    /\ UNCHANGED outsideService

\* The endpoint function runs and its return value becomes the 200 response.
RunEndpoint ==
    /\ pc = "endpoint"
    /\ handlerEntered' = TRUE
    /\ IF request.route = "analyze"
       THEN LET out == analyze(payload) IN
            /\ classifierCalls' = classifierCalls \o out.classified
            /\ IF out.result.kind = "return"
               THEN /\ response' = [status |-> 200, body |-> out.result.value]
                    /\ pc' = "responded"
                    /\ exc' = exc
               ELSE /\ response' = response
                    /\ pc' = "raised"
                    /\ exc' = Exception(out.result.value, "validation error for AnalyzeResponse")
       ELSE /\ response' = [status |-> 200, body |-> health_check(settings)]
            /\ pc' = "responded"
            /\ UNCHANGED << classifierCalls, exc >>
    /\ UNCHANGED << settings, request, payload, log, sentStatuses >>
    /\ UNCHANGED outsideService

\* The runtime raises an exception while the endpoint function runs.
EndpointFault(text) ==
    /\ pc = "endpoint"
    /\ handlerEntered' = TRUE
    /\ exc' = Exception("Exception", text)
    /\ pc' = "raised"
    /\ UNCHANGED << settings, request, payload, classifierCalls, response, log,
                    sentStatuses >>
    /\ UNCHANGED outsideService

\* The registered exception handlers: RequestValidationError goes to
\* validation_exception_handler, every other Exception to
\* global_exception_handler.
HandleException ==
    /\ pc = "raised"
    /\ LET h == IF exc.class = "RequestValidationError"
                THEN validation_exception_handler(exc)
                ELSE global_exception_handler(exc) IN
       /\ response' = h.response
       /\ log' = log \o h.logged
    /\ pc' = "responded"
    /\ UNCHANGED << settings, request, payload, handlerEntered,
                    classifierCalls, exc, sentStatuses >>
    /\ UNCHANGED outsideService

\* The response is sent; the service is ready for the next request.
SendResponse ==
    /\ pc = "responded"
    /\ pc' = "idle"
    /\ sentStatuses' = sentStatuses \cup {response.status}
    /\ UNCHANGED << settings, request, payload, handlerEntered,
                    classifierCalls, exc, response, log >>
    /\ UNCHANGED outsideService

Next ==
    \/ \E req \in Requests : Receive(req)
    \/ ValidateRequest
    \/ RunEndpoint
    \/ HandleException
    \/ SendResponse

Spec == Init /\ [][Next]_vars

NextFault ==
    \/ Next
    \/ \E text \in FaultTexts : EndpointFault(text)

\* The service in an environment where endpoint functions can fail.
SpecFault == Init /\ [][NextFault]_vars

\* =================================================================== claims
\* What the request asks for, read off the request alone.
QuestionPresent == request.body.hasQuestion /\ request.body.question.type = "str"

QuestionLength == Len(request.body.question.chars)

QuestionInBounds == QuestionPresent /\ QuestionLength >= 3 /\ QuestionLength <= 1000

AnalyzeAnswered == pc = "responded" /\ request.route = "analyze"

IsWhitespaceOnly(chars) == \A i \in 1..Len(chars) : chars[i] = " "

\* The category the priority order stock > news > portfolio > general gives
\* a lower-cased text.
PriorityCategory(q) ==
    IF \E k \in Range(STOCK_KEYWORDS) : Contains(q, k) THEN "stock"
    ELSE IF \E k \in Range(NEWS_KEYWORDS) : Contains(q, k) THEN "news"
    ELSE IF \E k \in Range(PORTFOLIO_KEYWORDS) : Contains(q, k) THEN "portfolio"
    ELSE "general"

AllKeywords ==
    Range(STOCK_KEYWORDS) \cup Range(NEWS_KEYWORDS) \cup Range(PORTFOLIO_KEYWORDS)

MatchesNoKeyword(chars) ==
    LET q == Lower(chars) IN \A k \in AllKeywords : ~Contains(q, k)

\* C1: every accepted POST /api/v1/analyze answers with the category that
\* categorize_query returns for the validated question.
C1_CategoryFromClassifier ==
    (AnalyzeAnswered /\ response.status = 200) =>
        response.body.category = JStr(categorize_query(payload).value)

\* C2: categorize_query returns the highest-priority category that has a
\* keyword in the lower-cased query, and a query whose letter case was changed
\* gets the same category as the original.
C2_CaseInsensitivePriority ==
    (callOut # NoOutcome /\ callArg.type = "str") =>
        /\ callOut.value = PriorityCategory(Lower(callArg.chars))
        /\ variantOut # NoOutcome => variantOut.value = callOut.value

\* The two halves of the above that hold of categorize_query: the priority
\* order on the lower-cased query, and invariance under case changes of
\* queries made of ASCII characters.
PriorityOrderHolds ==
    (callOut # NoOutcome /\ callArg.type = "str") =>
        callOut.value = PriorityCategory(Lower(callArg.chars))

AsciiCaseInsensitive ==
    (variantOut # NoOutcome /\ \A i \in 1..Len(callArg.chars) : callArg.chars[i] # LongS) =>
        variantOut.value = callOut.value

\* C3: for every string, of any length, categorize_query returns one of the
\* four categories and raises nothing.
C3_CategoryClosure ==
    /\ (callOut # NoOutcome /\ callArg.type = "str") =>
           callOut.kind = "return" /\ callOut.value \in VALID_CATEGORIES
    /\ variantOut # NoOutcome =>
           variantOut.kind = "return" /\ variantOut.value \in VALID_CATEGORIES

\* An over-long string has been classified.
C3_Witness ==
    /\ callArg.type = "str"
    /\ Len(callArg.chars) > MAX_LENGTH
    /\ callOut.kind = "return"

\* C4: a query that matches no keyword, and a call whose classification step
\* raised, both end in the returned value "general"; nothing is raised to
\* the caller.
C4_FallbackTotality ==
    callOut # NoOutcome =>
        /\ (callArg.type = "str" /\ MatchesNoKeyword(callArg.chars)) =>
               callOut.kind = "return" /\ callOut.value = "general"
        /\ callArg.type # "str" =>
               callOut.kind = "return" /\ callOut.value = "general"

\* query.lower() raised inside the call and the call returned "general".
C4_Witness ==
    /\ callArg = PyNone
    /\ callOut.kind = "return"
    /\ callOut.value = "general"
    /\ Len(callOut.logged) = 1

\* C5: POST /api/v1/analyze is answered 200 exactly when the body has a
\* question string of 3 to 1000 characters, and 422 otherwise.
C5_AcceptedIffLengthInBounds ==
    AnalyzeAnswered =>
        /\ QuestionInBounds => response.status = 200
        /\ ~QuestionInBounds => response.status = 422

\* A question of exactly 1000 characters has been accepted.
C5_Witness ==
    /\ AnalyzeAnswered
    /\ QuestionPresent
    /\ QuestionLength = 1000
    /\ response.status = 200

C7_EnvelopeComplete ==
    (request.route = "analyze" /\ response.status = 200) =>
        /\ DOMAIN response.body = {"category", "summary", "data", "confidence"}
        /\ response.body.category.json = "string"
        /\ response.body.category.text \in VALID_CATEGORIES
        /\ response.body.summary.json = "string"
        /\ \/ response.body.confidence.json = "null"
           \/ /\ response.body.confidence.json = "number"
              /\ response.body.confidence.tenths >= 0
              /\ response.body.confidence.tenths <= 10

\* A 200 envelope with data present and confidence absent has been built.
C7_Witness ==
    /\ AnalyzeAnswered
    /\ response.status = 200
    /\ response.body.data.json = "object"
    /\ response.body.summary = JStr(STUB_SUMMARY)

ViolatedConstraints(body) ==
    IF ~body.hasQuestion THEN {"required"}
    ELSE IF body.question.type # "str" THEN {"type"}
    ELSE {c \in {"min_length"} : Len(body.question.chars) < 3}
            \cup {c \in {"max_length"} : Len(body.question.chars) > 1000}

ConstraintOf(type) ==
    CASE type = "missing" -> "required"
      [] type = "string_type" -> "type"
      [] type = "string_too_short" -> "min_length"
      [] type = "string_too_long" -> "max_length"
      [] OTHER -> "unknown"

\* C8: a request that violates a constraint is answered 422 with
\* {"error": "validation_error", "detail": [...]}, detail holding one entry
\* per violated constraint; it is never answered 500.
C8_ValidationFailureShape ==
    (AnalyzeAnswered /\ ViolatedConstraints(request.body) # {}) =>
        /\ response.status = 422
        /\ DOMAIN response.body = {"error", "detail"}
        /\ response.body.error = "validation_error"
        /\ Len(response.body.detail) = Cardinality(ViolatedConstraints(request.body))
        /\ { ConstraintOf(response.body.detail[i].type) :
               i \in 1..Len(response.body.detail) } = ViolatedConstraints(request.body)

\* A body without the question member has been answered.
C8_Witness ==
    /\ AnalyzeAnswered
    /\ ~request.body.hasQuestion
    /\ response.status = 422
    /\ Len(response.body.detail) = 1

\* C9: an exception other than a validation error is answered 500 with the
\* constant body; the exception's text is in the log and not in the body.
C9_GenericInternalError ==
    (pc = "responded" /\ exc.class \notin {"none", "RequestValidationError"}) =>
        /\ response = [status |-> 500,
                       body |-> [error |-> "internal_server_error",
                                 detail |-> "An unexpected error occurred."]]
        /\ response.body.detail # exc.text
        /\ \E i \in 1..Len(log) : log[i].text = exc.text

\* The endpoint function failed and the failure has been answered.
C9_Witness ==
    /\ pc = "responded"
    /\ exc.class = "Exception"
    /\ exc.text \in FaultTexts
    /\ response.status = 500

\* C10: the confidence of every 200 response of POST /api/v1/analyze is null.
C10_ConfidenceAbsent ==
    (request.route = "analyze" /\ response.status = 200) =>
        /\ "confidence" \in DOMAIN response.body
        /\ response.body.confidence = JNull

\* A question with a stock keyword was accepted and answered.
C10_Witness ==
    /\ AnalyzeAnswered
    /\ response.status = 200
    /\ Contains(Lower(payload.chars), <<"p","r","i","c","e">>)
    /\ response.body.confidence = JNull

\* C11: two calls of categorize_query on the same query return the same
\* category whatever calls ran before, between or beside them, and no call
\* changes module state that a call could read.
C11_Deterministic ==
    /\ \A c \in Coroutines :
           coroutines[c].pc = "done" =>
               /\ coroutines[c].outcome.kind = "return"
               /\ coroutines[c].outcome.value = firstOutcome[coroutines[c].query]
    /\ \A c, d \in Coroutines :
           (coroutines[c].pc = "done" /\ coroutines[d].pc = "done"
                /\ coroutines[c].query = coroutines[d].query) =>
               coroutines[c].outcome.value = coroutines[d].outcome.value
    /\ categorizerGlobals.VALID_CATEGORIES = VALID_CATEGORIES

\* Two callers hold results for the same query, after calls on two other
\* queries (one of them the failing one) have run.
C11_Witness ==
    /\ \E c, d \in Coroutines :
           /\ c # d
           /\ coroutines[c].pc = "done"
           /\ coroutines[d].pc = "done"
           /\ coroutines[c].query = coroutines[d].query
           /\ coroutines[c].outcome.value = "stock"
    /\ Cardinality({ q \in ConcurrentQueries : firstOutcome[q] # "unseen" }) >= 3
    /\ categorizerGlobals.logged # {}

\* C12: whatever requests are served before or beside it, a request gets the
\* response that its own body and the configuration determine: the same one
\* as the first request with that route and body got.
C12_Stateless ==
    \A r \in InFlight :
        inflight[r].pc = "responded" =>
            inflight[r].response = firstResponse[inflight[r].request]

\* GET /health and POST /api/v1/analyze are answered side by side, after all
\* four kinds of request have been answered before.
C12_Witness ==
    /\ \E r, q \in InFlight :
           /\ inflight[r].pc = "responded"
           /\ inflight[r].request.route = "health"
           /\ inflight[q].pc = "responded"
           /\ inflight[q].request.route = "analyze"
           /\ inflight[q].response.status = 200
    /\ \A req \in InterleavedRequests : firstResponse[req] # NoResponse
    /\ serverLog # {}

\* C13: GET /health is answered 200 with status "ok" and app equal to the
\* configured settings.app_name, whatever responses were sent before.
C13_HealthAlwaysOk ==
    (pc = "responded" /\ request.route = "health" /\ exc = NoExc) =>
        /\ response.status = 200
        /\ response.body = [status |-> JStr("ok"), app |-> JStr(settings.app_name)]
        /\ settings.app_name \in AppNames

\* /health is answered under a configured name that is not the default,
\* after a 422 and a 500 have been sent.
C13_Witness ==
    /\ pc = "responded"
    /\ request.route = "health"
    /\ response.status = 200
    /\ settings.app_name # DEFAULT_APP_NAME
    /\ {200, 422, 500} \subseteq sentStatuses

CountOps(ops, op) == Cardinality({ i \in 1..Len(ops) : ops[i].op = op })

\* One use of get_db at any moment: one session opened, open while the
\* consumer has it, closed once when the generator has finished, and neither
\* committed nor rolled back by get_db.
SessionWellHandled(use) ==
    /\ use.pc # "unused" => CountOps(use.ops, "open") = 1
    /\ use.pc \in {"yielded", "returned", "raised"} => CountOps(use.ops, "close") = 0
    /\ use.pc = "finished" =>
           /\ CountOps(use.ops, "close") = 1
           /\ use.ops[Len(use.ops)] = SessionOp("close", "get_db")
    /\ \A i \in 1..Len(use.ops) :
           use.ops[i].by = "get_db" => use.ops[i].op \in {"open", "close"}

\* C14: every use of get_db opens exactly one session, closes it exactly
\* once after the consumer has ended, by return or by exception, and does
\* no commit or rollback of its own.
C14_SessionClosedOnce ==
    /\ [](\A u \in DbUses : SessionWellHandled(uses[u]))
    /\ \A u \in DbUses :
           (uses[u].pc \in {"returned", "raised"}) ~>
               (uses[u].pc = "finished" /\ CountOps(uses[u].ops, "close") = 1)

\* One session was closed after its consumer committed and then raised,
\* another after its consumer returned.
C14_Witness ==
    \E u, v \in DbUses :
        /\ uses[u].pc = "finished"
        /\ uses[u].propagated
        /\ uses[u].ops = << SessionOp("open", "get_db"), SessionOp("commit", "consumer"),
                            SessionOp("close", "get_db") >>
        /\ uses[v].pc = "finished"
        /\ ~uses[v].propagated
        /\ CountOps(uses[v].ops, "close") = 1

====
